---- MODULE Spec2Model ----
(***************************************************************************)
(* StatuteGraph (src/src/statute_graph/graph.py): a directed graph of      *)
(* statutory cross-references kept in a networkx DiGraph, with an encoded  *)
(* marker set.  An edge A -> B means "A depends on B".                     *)
(*                                                                         *)
(* The DiGraph is modelled with the iteration orders networkx keeps: the   *)
(* node dictionary and every adjacency dictionary are insertion ordered.   *)
(* Python sets of strings iterate in an order fixed by the per-process     *)
(* string hash seed; the model treats that order as a free choice.         *)
(***************************************************************************)
EXTENDS Naturals, Integers, Sequences, FiniteSets, TLC

VARIABLES graph, encoded, result, edgesAdded, child

vars == <<graph, encoded, result, edgesAdded, child>>

(***************************************************************************)
(* Bounds: the number of edges the add_edge calls of Spec, and of           *)
(* SpecAttrs, may bring a graph to; MaxEdges is also the number of edges   *)
(* of the graphs of SpecFrame.                                             *)
(***************************************************************************)
MaxEdges == 2

MaxAttrEdges == 1

\* Citation paths used as node identifiers.
IdSeq == <<"us/statute/26/32", "us/statute/26/151", "us/statute/42/7">>

Ids == {IdSeq[i] : i \in DOMAIN IdSeq}

(***************************************************************************)
(* Generic helpers.                                                        *)
(***************************************************************************)
Range(s) == {s[i] : i \in DOMAIN s}

Min(a, b) == IF a <= b THEN a ELSE b

Reverse(s) == [i \in 1..Len(s) |-> s[Len(s) + 1 - i]]

IndexOf(s, x) == CHOOSE i \in DOMAIN s : s[i] = x

\* f extended (or overwritten) at key k with value v.
Ext(f, k, v) == [x \in (DOMAIN f) \cup {k} |-> IF x = k THEN v ELSE f[x]]

\* dict.update: keys of new overwrite, other keys of old are kept.
DictUpdate(old, new) ==
    [k \in (DOMAIN old) \cup (DOMAIN new) |->
        IF k \in DOMAIN new THEN new[k] ELSE old[k]]

NoAttrs == [k \in {} |-> ""]

(***************************************************************************)
(* Python strings.  A string value of the model is opaque; Chars gives the *)
(* characters of every string the model uses.                              *)
(***************************************************************************)
Chars(str) ==
    CASE str = "us/statute/26/32" -> <<"u", "s", "/", "s", "t", "a", "t", "u", "t", "e", "/", "2", "6", "/", "3", "2">>
      [] str = "us/statute/26/151" -> <<"u", "s", "/", "s", "t", "a", "t", "u", "t", "e", "/", "2", "6", "/", "1", "5", "1">>
      [] str = "us/statute/42/7" -> <<"u", "s", "/", "s", "t", "a", "t", "u", "t", "e", "/", "4", "2", "/", "7">>
      [] str = "" -> <<>>
      [] str = "us/" -> <<"u", "s", "/">>
      [] str = "us/statute/" -> <<"u", "s", "/", "s", "t", "a", "t", "u", "t", "e", "/">>
      [] str = "26" -> <<"2", "6">>
      [] str = "26/3" -> <<"2", "6", "/", "3">>
      [] str = "us/statute/42" -> <<"u", "s", "/", "s", "t", "a", "t", "u", "t", "e", "/", "4", "2">>
      [] str = "42/7" -> <<"4", "2", "/", "7">>
      [] str = "us/statute/26/32/a" -> <<"u", "s", "/", "s", "t", "a", "t", "u", "t", "e", "/", "2", "6", "/", "3", "2", "/", "a">>
      [] str = "us/statute/26/A/24" -> <<"u", "s", "/", "s", "t", "a", "t", "u", "t", "e", "/", "2", "6", "/", "A", "/", "2", "4">>
      [] str = "us/statute/26/7701A" -> <<"u", "s", "/", "s", "t", "a", "t", "u", "t", "e", "/", "2", "6", "/", "7", "7", "0", "1", "A">>
      [] str = "A" -> <<"A">>
      [] str = "26/A" -> <<"2", "6", "/", "A">>
      [] str = "us/statute/26" -> <<"u", "s", "/", "s", "t", "a", "t", "u", "t", "e", "/", "2", "6">>

Digits == <<"0", "1", "2", "3", "4", "5", "6", "7", "8", "9">>

IsDigit(c) == c \in Range(Digits)

DigitValue(c) == (CHOOSE i \in DOMAIN Digits : Digits[i] = c) - 1

IsUpper(c) ==
    c \in {"A", "B", "C", "D", "E", "F", "G", "H", "I", "J", "K", "L", "M",
           "N", "O", "P", "Q", "R", "S", "T", "U", "V", "W", "X", "Y", "Z"}

\* a.startswith(b) on character sequences
StartsWith(a, b) == Len(b) <= Len(a) /\ SubSeq(a, 1, Len(b)) = b

\* str.split("/") on a character sequence
RECURSIVE SplitSlash(_, _, _)
SplitSlash(cs, k, cur) ==
    IF k > Len(cs) THEN <<cur>>
    ELSE IF cs[k] = "/" THEN <<cur>> \o SplitSlash(cs, k + 1, <<>>)
         ELSE SplitSlash(cs, k + 1, Append(cur, cs[k]))

\* int() of a sequence of digit characters
RECURSIVE IntOf(_)
IntOf(ds) ==
    IF ds = <<>> THEN 0
    ELSE 10 * IntOf(SubSeq(ds, 1, Len(ds) - 1)) + DigitValue(ds[Len(ds)])

(***************************************************************************)
(* networkx.DiGraph as used by StatuteGraph.                               *)
(*   node  : the keys of G._node in insertion order                        *)
(*   nattr : node -> attribute dict                                        *)
(*   succ  : node -> keys of G._succ[node] in insertion order              *)
(*   pred  : node -> keys of G._pred[node] in insertion order              *)
(*   eattr : <<u, v>> -> attribute dict of the edge u -> v                 *)
(***************************************************************************)
DiGraph ==
    [node |-> <<>>, nattr |-> NoAttrs, succ |-> NoAttrs, pred |-> NoAttrs,
     eattr |-> NoAttrs]

NodeSet(g) == Range(g.node)

EdgeSet(g) == {e \in NodeSet(g) \X NodeSet(g) : e[2] \in Range(g.succ[e[1]])}

number_of_nodes(g) == Len(g.node)

RECURSIVE SumLen(_, _)
SumLen(f, S) ==
    IF S = {} THEN 0
    ELSE LET x == CHOOSE y \in S : TRUE
         IN  Len(f[x]) + SumLen(f, S \ {x})

number_of_edges(g) == SumLen(g.succ, DOMAIN g.succ)

\* add_node that replaces the attribute dict of a node it already has.
nx_add_node_replacing(g, n, attr) ==
    IF n \in NodeSet(g)
    THEN [g EXCEPT !.nattr[n] = attr]
    ELSE [g EXCEPT !.node = Append(@, n),
                   !.nattr = Ext(@, n, attr),
                   !.succ = Ext(@, n, <<>>),
                   !.pred = Ext(@, n, <<>>)]

\* DiGraph.add_node(n, **attr)
nx_add_node(g, n, attr) ==
    IF n \in NodeSet(g)
    THEN [g EXCEPT !.nattr[n] = DictUpdate(@, attr)]
    ELSE [g EXCEPT !.node = Append(@, n),
                   !.nattr = Ext(@, n, attr),
                   !.succ = Ext(@, n, <<>>),
                   !.pred = Ext(@, n, <<>>)]

\* add_edge that records the adjacency without creating missing endpoints.
nx_add_edge_no_endpoints(g, u, v, attr) ==
    LET su == IF u \in DOMAIN g.succ THEN g.succ[u] ELSE <<>>
        pv == IF v \in DOMAIN g.pred THEN g.pred[v] ELSE <<>>
        old == IF <<u, v>> \in DOMAIN g.eattr THEN g.eattr[<<u, v>>] ELSE NoAttrs
    IN  [g EXCEPT
           !.succ = Ext(@, u, IF v \in Range(su) THEN su ELSE Append(su, v)),
           !.pred = Ext(@, v, IF u \in Range(pv) THEN pv ELSE Append(pv, u)),
           !.eattr = Ext(@, <<u, v>>, DictUpdate(old, attr))]

\* DiGraph.add_edge(u, v, **attr): missing endpoints are created first.
nx_add_edge(g, u, v, attr) ==
    LET g1 == nx_add_node(g, u, NoAttrs)
        g2 == nx_add_node(g1, v, NoAttrs)
        old == IF <<u, v>> \in DOMAIN g2.eattr THEN g2.eattr[<<u, v>>] ELSE NoAttrs
    IN  [g2 EXCEPT
           !.succ[u] = IF v \in Range(@) THEN @ ELSE Append(@, v),
           !.pred[v] = IF u \in Range(@) THEN @ ELSE Append(@, u),
           !.eattr = Ext(@, <<u, v>>, DictUpdate(old, attr))]

(***************************************************************************)
(* StatuteGraph accessors.                                                 *)
(***************************************************************************)
num_nodes == number_of_nodes(graph)

num_edges == number_of_edges(graph)

\* list(self._graph.successors(node))
get_dependencies(g, n) == g.succ[n]

\* list(self._graph.predecessors(node))
get_dependents(g, n) == g.pred[n]

\* in_degree read from the predecessors.
in_degree_of_predecessors(g, n) == Len(g.pred[n])

\* self._graph.out_degree(node): the number of dependencies
in_degree(g, n) == Len(g.succ[n])

\* self._graph.in_degree(node): the number of dependents
out_degree(g, n) == Len(g.pred[n])

(***************************************************************************)
(* networkx algorithms called by StatuteGraph.  They depend on the graph   *)
(* only through the node order (g.node), the successor order (g.succ) and  *)
(* the predecessor counts (g.pred), so they apply to the condensation      *)
(* graph (integer nodes) as well.                                          *)
(***************************************************************************)

\* One generation of nx.topological_generations: every node of gen, in
\* order, decrements the in-degree of each of its successors; a successor
\* whose in-degree reaches 0 joins the next generation.
RECURSIVE ProcessGeneration(_, _, _, _, _, _)
ProcessGeneration(g, gen, i, j, indegree_map, zero_indegree) ==
    IF i > Len(gen) THEN [indegree_map |-> indegree_map, zero_indegree |-> zero_indegree]
    ELSE IF j > Len(g.succ[gen[i]])
         THEN ProcessGeneration(g, gen, i + 1, 1, indegree_map, zero_indegree)
         ELSE LET c == g.succ[gen[i]][j]
                  d == indegree_map[c] - 1
              IN  ProcessGeneration(g, gen, i, j + 1,
                      [indegree_map EXCEPT ![c] = d],
                      IF d = 0 THEN Append(zero_indegree, c) ELSE zero_indegree)

RECURSIVE Generations(_, _, _, _)
Generations(g, zero_indegree, indegree_map, out) ==
    IF zero_indegree = <<>>
    THEN [order |-> out, indegree_map |-> indegree_map]
    ELSE LET r == ProcessGeneration(g, zero_indegree, 1, 1, indegree_map, <<>>)
         IN  Generations(g, r.zero_indegree, r.indegree_map, out \o zero_indegree)

\* nx.topological_sort(G), consumed by list(): the generations in order,
\* or NetworkXUnfeasible when some node keeps a positive in-degree.
nx_topological_sort(g) ==
    LET indeg == [v \in NodeSet(g) |-> Len(g.pred[v])]
        zero  == SelectSeq(g.node, LAMBDA v : indeg[v] = 0)
        r     == Generations(g, zero, indeg, <<>>)
    IN  IF \E v \in NodeSet(g) : r.indegree_map[v] > 0
        THEN [unfeasible |-> TRUE, order |-> <<>>]
        ELSE [unfeasible |-> FALSE, order |-> r.order]

\* lowlink of v once all its successors are done (Tarjan/Nuutila as in
\* nx.strongly_connected_components).
RECURSIVE LowLink(_, _, _, _, _)
LowLink(g, v, k, st, low) ==
    IF k > Len(g.succ[v]) THEN low
    ELSE LET w == g.succ[v][k]
         IN  LowLink(g, v, k + 1, st,
                 IF w \in st.scc_found THEN low
                 ELSE IF st.preorder[w] > st.preorder[v]
                      THEN Min(low, st.lowlink[w])
                      ELSE Min(low, st.preorder[w]))

\* Pops from scc_queue every node with a larger preorder number than v.
RECURSIVE PopScc(_, _, _)
PopScc(queue, preorder, v) ==
    IF queue # <<>> /\ preorder[queue[Len(queue)]] > preorder[v]
    THEN LET r == PopScc(SubSeq(queue, 1, Len(queue) - 1), preorder, v)
         IN  [scc |-> r.scc \cup {queue[Len(queue)]}, queue |-> r.queue]
    ELSE [scc |-> {v}, queue |-> queue]

RECURSIVE SccVisit(_, _, _)
RECURSIVE SccVisitSucc(_, _, _, _)

SccVisitSucc(g, v, k, st) ==
    IF k > Len(g.succ[v]) THEN st
    ELSE LET w == g.succ[v][k]
         IN  SccVisitSucc(g, v, k + 1,
                 IF st.preorder[w] = 0 THEN SccVisit(g, w, st) ELSE st)

SccVisit(g, v, st) ==
    LET st1 == [st EXCEPT !.i = @ + 1, !.preorder[v] = st.i + 1]
        st2 == SccVisitSucc(g, v, 1, st1)
        low == LowLink(g, v, 1, st2, st2.preorder[v])
        st3 == [st2 EXCEPT !.lowlink[v] = low]
        p   == PopScc(st3.scc_queue, st3.preorder, v)
    IN  IF low = st3.preorder[v]
        THEN [st3 EXCEPT !.scc_queue = p.queue,
                         !.scc_found = @ \cup p.scc,
                         !.out = Append(@, p.scc)]
        ELSE [st3 EXCEPT !.scc_queue = Append(@, v)]

RECURSIVE SccSources(_, _, _)
SccSources(g, k, st) ==
    IF k > Len(g.node) THEN st
    ELSE SccSources(g, k + 1,
             IF g.node[k] \in st.scc_found THEN st ELSE SccVisit(g, g.node[k], st))

\* list(nx.strongly_connected_components(G)): the components in the order
\* the depth-first search completes them.
nx_strongly_connected_components(g) ==
    SccSources(g, 1,
        [i |-> 0,
         preorder |-> [v \in NodeSet(g) |-> 0],
         lowlink |-> [v \in NodeSet(g) |-> 0],
         scc_found |-> {},
         scc_queue |-> <<>>,
         out |-> <<>>]).out

\* G.edges(): for every node in node order, its successors in order.
RECURSIVE EdgeList(_, _, _)
EdgeList(g, i, j) ==
    IF i > Len(g.node) THEN <<>>
    ELSE IF j > Len(g.succ[g.node[i]]) THEN EdgeList(g, i + 1, 1)
         ELSE <<(<<g.node[i], g.succ[g.node[i]][j]>>)>> \o EdgeList(g, i, j + 1)

nx_edges(g) == EdgeList(g, 1, 1)

RECURSIVE AddNodesFrom(_, _, _)
AddNodesFrom(g, ns, k) ==
    IF k > Len(ns) THEN g
    ELSE AddNodesFrom(nx_add_node(g, ns[k], NoAttrs), ns, k + 1)

RECURSIVE AddEdgesFrom(_, _, _)
AddEdgesFrom(g, es, k) ==
    IF k > Len(es) THEN g
    ELSE AddEdgesFrom(nx_add_edge(g, es[k][1], es[k][2], NoAttrs), es, k + 1)

\* nx.condensation(G, scc=sccs): node i (from 0) stands for sccs[i]; an edge
\* for every edge of G that joins two different components.
nx_condensation(g, sccs) ==
    LET mapping == [n \in NodeSet(g) |->
                       (CHOOSE i \in 1..Len(sccs) : n \in sccs[i]) - 1]
        C0 == AddNodesFrom(DiGraph, [i \in 1..Len(sccs) |-> i - 1], 1)
        es == SelectSeq(nx_edges(g), LAMBDA e : mapping[e[1]] # mapping[e[2]])
    IN  IF Len(g.node) = 0 THEN DiGraph
        ELSE AddEdgesFrom(C0, [k \in 1..Len(es) |-> <<mapping[es[k][1]], mapping[es[k][2]]>>], 1)

\* The simple cycles of G (nx.simple_cycles), each written from its first
\* node in node order.  A self-loop is a cycle of length one.
SimpleCycles(g) ==
    LET n == Len(g.node)
        IsCycle(c) ==
            /\ \A a, b \in DOMAIN c : a # b => c[a] # c[b]
            /\ \A a \in DOMAIN c : IndexOf(g.node, c[1]) <= IndexOf(g.node, c[a])
            /\ \A a \in DOMAIN c :
                   c[IF a = Len(c) THEN 1 ELSE a + 1] \in Range(g.succ[c[a]])
    IN  UNION {{c \in [1..k -> NodeSet(g)] : IsCycle(c)} : k \in 1..n}

\* The sort without reverse=True: ascending by key.
RECURSIVE SortByKeyAsc(_, _, _)
SortByKeyAsc(s, key, d) ==
    LET here == SelectSeq(s, LAMBDA x : key[x] = d)
    IN  IF d = 0 THEN here ELSE SortByKeyAsc(s, key, d - 1) \o here

\* list.sort(key=..., reverse=True) for integer keys in 0..d: descending by
\* key, equal keys keep their relative order.
RECURSIVE SortByKeyDesc(_, _, _)
SortByKeyDesc(s, key, d) ==
    LET here == SelectSeq(s, LAMBDA x : key[x] = d)
    IN  IF d = 0 THEN here ELSE here \o SortByKeyDesc(s, key, d - 1)

\* The permutations of a finite set, as sequences.
Perms(S) ==
    {f \in [1..Cardinality(S) -> S] : \A a, b \in 1..Cardinality(S) : a # b => f[a] # f[b]}

\* list(S) for a Python set S of strings: the members in the order the
\* process's string hashing puts them; h is that order over all node ids.
SetToList(S, h) == SelectSeq(h, LAMBDA x : x \in S)

\* The cycle list without the slice.
ListWhole(cs, n) == {cs}

\* cycles[:n] of a list holding the cycles cs in an order the model does
\* not fix: any n of them, all of them when there are fewer.
ListPrefixes(cs, n) == {c \in SUBSET cs : Cardinality(c) = Min(n, Cardinality(cs))}

(***************************************************************************)
(* StatuteGraph ordering operations.                                       *)
(***************************************************************************)
RECURSIVE FlattenSccs(_, _, _, _, _)
FlattenSccs(g, sccs, scc_order, k, h) ==
    IF k > Len(scc_order) THEN <<>>
    ELSE LET scc_nodes == SetToList(sccs[scc_order[k] + 1], h)
             key == [n \in NodeSet(g) |-> out_degree(g, n)]
         IN  SortByKeyDesc(scc_nodes, key, Len(g.node))
                 \o FlattenSccs(g, sccs, scc_order, k + 1, h)

\* _topological_sort_with_cycles without the reversal of the component order.
topological_sort_with_cycles_unreversed(g, h) ==
    LET sccs == nx_strongly_connected_components(g)
        condensation == nx_condensation(g, sccs)
        scc_order == nx_topological_sort(condensation).order
    IN  FlattenSccs(g, sccs, scc_order, 1, h)

\* StatuteGraph._topological_sort_with_cycles
topological_sort_with_cycles(g, h) ==
    LET sccs == nx_strongly_connected_components(g)
        condensation == nx_condensation(g, sccs)
        scc_order == Reverse(nx_topological_sort(condensation).order)
    IN  FlattenSccs(g, sccs, scc_order, 1, h)

\* topological_sort without the reversal of the strict order.
topological_sort_unreversed(g, allow_cycles) ==
    LET ts == nx_topological_sort(g)
    IN  IF ~ts.unfeasible
        THEN {[op |-> "topological_sort", allow_cycles |-> allow_cycles,
               status |-> "ok", order |-> ts.order]}
        ELSE IF ~allow_cycles
             THEN {[op |-> "topological_sort", allow_cycles |-> allow_cycles,
                    status |-> "ValueError", cycles |-> c] :
                       c \in ListPrefixes(SimpleCycles(g), 3)}
             ELSE {[op |-> "topological_sort", allow_cycles |-> allow_cycles,
                    status |-> "ok", order |-> topological_sort_with_cycles(g, h)] :
                       h \in Perms(NodeSet(g))}

\* StatuteGraph.topological_sort: the results the call can have.
topological_sort(g, allow_cycles) ==
    LET ts == nx_topological_sort(g)
    IN  IF ~ts.unfeasible
        THEN {[op |-> "topological_sort", allow_cycles |-> allow_cycles,
               status |-> "ok", order |-> Reverse(ts.order)]}
        ELSE IF ~allow_cycles
             THEN {[op |-> "topological_sort", allow_cycles |-> allow_cycles,
                    status |-> "ValueError", cycles |-> c] :
                       c \in ListPrefixes(SimpleCycles(g), 3)}
             ELSE {[op |-> "topological_sort", allow_cycles |-> allow_cycles,
                    status |-> "ok", order |-> topological_sort_with_cycles(g, h)] :
                       h \in Perms(NodeSet(g))}

\* get_sccs reporting all the nodes as one component.
get_sccs_single_component(g) == IF NodeSet(g) = {} THEN <<>> ELSE <<NodeSet(g)>>

\* StatuteGraph.get_sccs
get_sccs(g) == nx_strongly_connected_components(g)

\* get_encoding_sequence numbering the records from 0.
EncodingRecordsFromZero(g, order) ==
    LET sccs == get_sccs(g)
        scc_lookup == [n \in UNION Range(sccs) |->
                          Cardinality(sccs[CHOOSE i \in DOMAIN sccs : n \in sccs[i]])]
    IN  [i \in 1..Len(order) |->
            [citation_path |-> order[i],
             order |-> i - 1,
             scc_size |-> scc_lookup[order[i]],
             dependencies |-> in_degree(g, order[i]),
             dependents |-> out_degree(g, order[i])]]

\* get_encoding_sequence with a lookup that misses every node, so that
\* scc_size falls back to 1.
EncodingRecordsLookupMiss(g, order) ==
    [i \in 1..Len(order) |->
        [citation_path |-> order[i],
         order |-> i,
         scc_size |-> 1,
         dependencies |-> in_degree(g, order[i]),
         dependents |-> out_degree(g, order[i])]]

\* StatuteGraph.get_encoding_sequence, given the order topological_sort
\* returned.
EncodingRecords(g, order) ==
    LET sccs == get_sccs(g)
        scc_lookup == [n \in UNION Range(sccs) |->
                          Cardinality(sccs[CHOOSE i \in DOMAIN sccs : n \in sccs[i]])]
    IN  [i \in 1..Len(order) |->
            [citation_path |-> order[i],
             order |-> i,
             scc_size |-> IF order[i] \in DOMAIN scc_lookup
                          THEN scc_lookup[order[i]] ELSE 1,
             dependencies |-> in_degree(g, order[i]),
             dependents |-> out_degree(g, order[i])]]

get_encoding_sequence(g) ==
    {[op |-> "get_encoding_sequence", status |-> "ok",
      records |-> EncodingRecords(g, r.order)] : r \in topological_sort(g, TRUE)}

(***************************************************************************)
(* Subgraph extraction.                                                    *)
(***************************************************************************)
\* Python None, for a value that is otherwise a tuple.
None == <<>>

\* networkx FilterAtlas iteration over the keys `keys` of the node
\* dictionary (or of the outer adjacency dictionary) of a subgraph view with
\* the node set S: in the order of S (a Python set) when S is less than half
\* as long as keys, in the order of keys otherwise.
FilterAtlas(keys, S, h) ==
    IF 2 * Cardinality(S) < Len(keys)
    THEN SelectSeq(SetToList(S, h), LAMBDA x : x \in Range(keys))
    ELSE SelectSeq(keys, LAMBDA x : x \in S)

\* The edges of G.subgraph(S), as G.subgraph(S).edges() lists them: for the
\* nodes us of the view in their order, the successors of each that are in
\* S.  The inner dictionary of a node is filtered by a closure, which has
\* no node set to iterate instead: the successors keep the order of the
\* successor dictionary of G, whatever the sizes.
RECURSIVE ViewEdges(_, _, _, _)
ViewEdges(g, S, us, k) ==
    IF k > Len(us) THEN <<>>
    ELSE LET vs == SelectSeq(g.succ[us[k]], LAMBDA x : x \in S)
         IN  [j \in 1..Len(vs) |-> <<us[k], vs[j]>>] \o ViewEdges(g, S, us, k + 1)

RECURSIVE CopyNodes(_, _, _, _)
CopyNodes(new, g, ns, k) ==
    IF k > Len(ns) THEN new
    ELSE CopyNodes(nx_add_node(new, ns[k], g.nattr[ns[k]]), g, ns, k + 1)

RECURSIVE CopyEdges(_, _, _, _)
CopyEdges(new, g, es, k) ==
    IF k > Len(es) THEN new
    ELSE CopyEdges(nx_add_edge(new, es[k][1], es[k][2], g.eattr[es[k]]), g, es, k + 1)

\* A copy that takes every edge of G instead of the edges of the view.
InducedCopyUnfiltered(g, nodes, h) ==
    LET S  == nodes \cap NodeSet(g)
        ns == FilterAtlas(g.node, S, h)
    IN  CopyEdges(CopyNodes(DiGraph, g, ns, 1), g, nx_edges(g), 1)

\* The nodes of the view G.subgraph(nodes), then its edges, copied into a
\* new graph with their attributes.  nodes is any collection of ids; ids
\* that are not nodes of G are ignored.
InducedCopy(g, nodes, h) ==
    LET S  == nodes \cap NodeSet(g)
        ns == FilterAtlas(g.node, S, h)
    IN  CopyEdges(CopyNodes(DiGraph, g, ns, 1), g, ViewEdges(g, S, ns, 1), 1)

\* get_section_num inside StatuteGraph.subgraph, <<n>> for the int n:
\* re.match(r".*/(\d+[A-Z]?)(?:/|$)", path) takes the last segment after a
\* slash that is digits with at most one capital letter after them.
IsSection(seg) ==
    /\ Len(seg) >= 1
    /\ IsDigit(seg[1])
    /\ \A i \in 1..(Len(seg) - 1) : IsDigit(seg[i])
    /\ IsDigit(seg[Len(seg)]) \/ (IsUpper(seg[Len(seg)]) /\ Len(seg) >= 2)

get_section_num(path) ==
    LET segs == SplitSlash(path, 1, <<>>)
        hits == {k \in 2..Len(segs) : IsSection(segs[k])}
        last == CHOOSE k \in hits : \A m \in hits : m <= k
    IN  IF hits = {} THEN None
        ELSE <<IntOf(SelectSeq(segs[last], IsDigit))>>

\* A prefix test that puts "us/statute/" before every prefix.
PrefixMatchesAlwaysNormalized(node, prefix) ==
    prefix = "" \/ StartsWith(Chars(node), Chars("us/statute/") \o Chars(prefix))

\* The prefix test of StatuteGraph.subgraph; prefix "" stands for None too.
PrefixMatches(node, prefix) ==
    LET normalized == IF StartsWith(Chars(prefix), Chars("us/"))
                      THEN Chars(prefix)
                      ELSE Chars("us/statute/") \o Chars(prefix)
    IN  prefix = "" \/ StartsWith(Chars(node), normalized)

\* The section range test; sections is None or <<min, max>>.
SectionMatches(node, sections) ==
    \/ sections = None
    \/ LET sec_num == get_section_num(Chars(node))
       IN  sec_num # None /\ sections[1] <= sec_num[1] /\ sec_num[1] <= sections[2]

\* The orders in which the Python set S can iterate, as far as a subgraph
\* view of a graph with n nodes looks at them: a view only iterates S when S
\* is less than half as long as the dictionary it filters, and no
\* dictionary of the graph has more than n keys.
ViewOrders(S, n) ==
    IF 2 * Cardinality(S) < n THEN Perms(S)
    ELSE {CHOOSE p \in Perms(S) : TRUE}

\* StatuteGraph.subgraph(prefix, sections): the new StatuteGraph objects the
\* call can return.
subgraph(g, prefix, sections) ==
    LET matching_nodes ==
            SelectSeq(g.node, LAMBDA node :
                PrefixMatches(node, prefix) /\ SectionMatches(node, sections))
    IN  {[graph |-> InducedCopy(g, Range(matching_nodes), h), encoded |-> {}] :
            h \in ViewOrders(Range(matching_nodes), Len(g.node))}

\* StatuteGraph.subgraph_from_nodes(nodes): the new StatuteGraph objects the
\* call can return.
subgraph_from_nodes(g, enc, nodes) ==
    {[graph |-> InducedCopy(g, Range(nodes), h), encoded |-> enc \cap Range(nodes)] :
        h \in ViewOrders(Range(nodes) \cap NodeSet(g), Len(g.node))}

(***************************************************************************)
(* The loader (src/src/statute_graph/loaders.py).                          *)
(***************************************************************************)
\* The title of a citation path build_citation_path made:
\* jurisdiction/statute/<title>/<section>.
TitleOf(path) == SplitSlash(Chars(path), 1, <<>>)[3]

(***************************************************************************)
(* State machine.                                                          *)
(***************************************************************************)
NoResult == [op |-> "none"]

\* No StatuteGraph has been derived from this one yet.
NoChild == [made |-> FALSE]

Init ==
    /\ graph = DiGraph
    /\ encoded = {}
    /\ result = NoResult
    /\ edgesAdded = {}
    /\ child = NoChild

\* StatuteGraph.add_node(citation_path, **attrs).  result keeps, of the
\* call, the ids it added to the graph.
add_node(citation_path, attrs) ==
    /\ graph' = nx_add_node(graph, citation_path, attrs)
    /\ result' = [op |-> "add_node", created |-> {citation_path} \ NodeSet(graph)]
    /\ UNCHANGED <<encoded, edgesAdded, child>>

\* StatuteGraph.add_edge(from_node, to_node, ref_type, **attrs)
add_edge(from_node, to_node, ref_type, attrs) ==
    /\ graph' = nx_add_edge(graph, from_node, to_node,
                            DictUpdate(attrs, [ref_type |-> ref_type]))
    /\ result' = [op |-> "add_edge",
                  created |-> {from_node, to_node} \ NodeSet(graph)]
    /\ edgesAdded' = edgesAdded \cup {<<from_node, to_node>>}
    /\ UNCHANGED <<encoded, child>>

\* A call of topological_sort(allow_cycles) on the graph.
TopologicalSort(allow_cycles) ==
    /\ \E r \in topological_sort(graph, allow_cycles) : result' = r
    /\ UNCHANGED <<graph, encoded, edgesAdded, child>>

TopologicalSortStrict == TopologicalSort(FALSE)

TopologicalSortTolerant == TopologicalSort(TRUE)

\* A call of get_sccs() on the graph.
GetSccs ==
    /\ result' = [op |-> "get_sccs", out |-> get_sccs(graph)]
    /\ UNCHANGED <<graph, encoded, edgesAdded, child>>

\* A call of get_encoding_sequence() on the graph.
GetEncodingSequence ==
    /\ \E r \in get_encoding_sequence(graph) : result' = r
    /\ UNCHANGED <<graph, encoded, edgesAdded, child>>

\* The caller goes on with the graph subgraph(prefix, sections) returns.
Subgraph(prefix, sections) ==
    /\ \E sg \in subgraph(graph, prefix, sections) :
           /\ graph' = sg.graph
           /\ encoded' = sg.encoded
           /\ edgesAdded' = EdgeSet(sg.graph)
    /\ result' = NoResult
    /\ UNCHANGED child

\* The caller goes on with the graph subgraph_from_nodes(nodes) returns.
SubgraphFromNodes(nodes) ==
    /\ \E sg \in subgraph_from_nodes(graph, encoded, nodes) :
           /\ graph' = sg.graph
           /\ encoded' = sg.encoded
           /\ edgesAdded' = EdgeSet(sg.graph)
    /\ result' = NoResult
    /\ UNCHANGED child

\* USCodeLoader._parse_into_graph, first pass, for one section element.
LoaderAddSection(citation_path, heading) ==
    add_node(citation_path, [title |-> TitleOf(citation_path), heading |-> heading])

\* USCodeLoader._parse_into_graph, second pass, for one <ref> of a section
\* the first pass added: the edge is added when the target is a node
\* already or lies in the same title, and is skipped otherwise.
LoaderAddRef(from_path, to_path, ref_text) ==
    LET ref_type == IF TitleOf(to_path) = TitleOf(from_path)
                    THEN "internal_section" ELSE "external_title"
        g1 == IF to_path \notin NodeSet(graph)
              THEN nx_add_node(graph, to_path, [title |-> TitleOf(to_path)])
              ELSE graph
    IN  /\ from_path \in NodeSet(graph)
        /\ IF to_path \in NodeSet(graph) \/ TitleOf(to_path) = TitleOf(from_path)
           THEN /\ graph' = nx_add_edge(g1, from_path, to_path,
                                        [ref_type |-> ref_type, text |-> ref_text])
                /\ edgesAdded' = edgesAdded \cup {<<from_path, to_path>>}
                /\ result' = [op |-> "add_edge",
                              created |-> {from_path, to_path} \ NodeSet(g1)]
           ELSE UNCHANGED <<graph, edgesAdded, result>>
        /\ UNCHANGED <<encoded, child>>

PrefixInputs == {"", "26", "us/statute/42"}

SectionInputs == {None, <<7, 32>>, <<100, 200>>}

NodeListInputs == {SelectSeq(IdSeq, LAMBDA x : x \in S) : S \in SUBSET Ids}

\* The repository builds a graph in one of two ways: by hand, with add_node
\* and add_edge calls (the tests), or with the loader, which fills a graph
\* it has created itself (from_xml, load_all).  Spec covers both ways, not
\* their mixture: a hand-built graph has no node attributes, every node of
\* a loaded graph has its title.
HandBuilt == \A n \in NodeSet(graph) : DOMAIN graph.nattr[n] = {}

Loaded == \A n \in NodeSet(graph) : "title" \in DOMAIN graph.nattr[n]

AddNodePlain == HandBuilt /\ \E n \in Ids : add_node(n, NoAttrs)

AddEdgePlain ==
    /\ HandBuilt
    /\ \E u \in Ids, v \in Ids :
           /\ <<u, v>> \in EdgeSet(graph) \/ number_of_edges(graph) < MaxEdges
           /\ add_edge(u, v, "unknown", NoAttrs)

LoaderSection == Loaded /\ \E n \in Ids : LoaderAddSection(n, "")

LoaderRef ==
    /\ Loaded
    /\ \E u \in Ids, v \in Ids :
           /\ <<u, v>> \in EdgeSet(graph) \/ number_of_edges(graph) < MaxEdges
           /\ LoaderAddRef(u, v, "ref")

SubgraphCall == \E p \in PrefixInputs, r \in SectionInputs : Subgraph(p, r)

SubgraphFromNodesCall == \E ns \in NodeListInputs : SubgraphFromNodes(ns)

Next ==
    \/ AddNodePlain
    \/ AddEdgePlain
    \/ LoaderSection
    \/ LoaderRef
    \/ SubgraphCall
    \/ SubgraphFromNodesCall

Spec == Init /\ [][Next]_vars

(***************************************************************************)
(* The ordering operations are functions of the graph: SpecOrder starts    *)
(* from a graph built by a script of add_node and add_edge calls over Ids, *)
(* with the first node marked encoded, and applies the ordering operations *)
(* to it.                                                                  *)
(***************************************************************************)
RECURSIVE EdgeScript(_, _, _, _)
EdgeScript(rank, E, i, j) ==
    IF i > Len(rank) THEN <<>>
    ELSE IF j > Len(rank) THEN EdgeScript(rank, E, i + 1, 1)
         ELSE (IF <<rank[i], rank[j]>> \in E THEN <<(<<rank[i], rank[j]>>)>> ELSE <<>>)
                  \o EdgeScript(rank, E, i, j + 1)

RECURSIVE RunEdgeScript(_, _, _)
RunEdgeScript(g, es, k) ==
    IF k > Len(es) THEN g
    ELSE RunEdgeScript(nx_add_edge(g, es[k][1], es[k][2], [ref_type |-> "unknown"]),
                       es, k + 1)

BuiltGraph(ns, rank, E) ==
    RunEdgeScript(AddNodesFrom(DiGraph, ns, 1), EdgeScript(rank, E, 1, 1), 1)

\* The graphs built by adding the nodes of S in the order of IdSeq and then
\* the edges E in the order of rank, for every S, E and rank.  Up to a
\* renaming of the ids these are all the relative orders of node and edge
\* insertions.
BuiltGraphs ==
    UNION {UNION {{BuiltGraph(SelectSeq(IdSeq, LAMBDA x : x \in S), rank, E) :
                      E \in SUBSET (S \X S)} :
                     rank \in Perms(S)} :
              S \in SUBSET Ids}

InitOrder ==
    /\ graph \in BuiltGraphs
    /\ encoded = {graph.node[i] : i \in (DOMAIN graph.node) \cap {1}}
    /\ result = NoResult
    /\ edgesAdded = EdgeSet(graph)
    /\ child = NoChild

NextOrder ==
    \/ TopologicalSortStrict
    \/ TopologicalSortTolerant
    \/ GetEncodingSequence

SpecOrder == InitOrder /\ [][NextOrder]_vars

(***************************************************************************)
(* Properties.  Cycles and components are stated here from reachability,   *)
(* independently of the algorithms above.                                  *)
(***************************************************************************)
RECURSIVE Closure(_, _)
Closure(g, S) ==
    LET T == S \cup UNION {Range(g.succ[n]) : n \in S}
    IN  IF T = S THEN S ELSE Closure(g, T)

\* b is reachable from a along one or more edges.
Reaches(g, a, b) == b \in Closure(g, Range(g.succ[a]))

SameScc(g, a, b) == a = b \/ (Reaches(g, a, b) /\ Reaches(g, b, a))

SccOf(g, a) == {b \in NodeSet(g) : SameScc(g, a, b)}

Acyclic(g) == \A n \in NodeSet(g) : ~Reaches(g, n, n)

IsPermutationOfNodes(g, order) ==
    /\ Len(order) = Len(g.node)
    /\ Range(order) = NodeSet(g)

StrictCall == result.op = "topological_sort" /\ ~result.allow_cycles

TolerantCall == result.op = "topological_sort" /\ result.allow_cycles

\* C1: on an acyclic graph strict topological_sort() returns an order of
\* all nodes in which, for every edge A -> B, B comes strictly before A.
C1_StrictOrderRespectsEdges ==
    (StrictCall /\ Acyclic(graph)) =>
        /\ result.status = "ok"
        /\ IsPermutationOfNodes(graph, result.order)
        /\ \A e \in EdgeSet(graph) :
               IndexOf(result.order, e[2]) < IndexOf(result.order, e[1])

C1_Witness ==
    /\ StrictCall /\ result.status = "ok"
    /\ Len(graph.node) = 3
    /\ \E a, b, c \in NodeSet(graph) :
           /\ a # b /\ b # c /\ a # c
           /\ {<<a, b>>, <<b, c>>} \subseteq EdgeSet(graph)

\* C2: on every graph topological_sort(allow_cycles=True) returns an order
\* of all nodes in which, for every edge A -> B whose endpoints lie in
\* different strongly connected components, B comes strictly before A.
C2_TolerantOrderRespectsCrossEdges ==
    TolerantCall =>
        /\ result.status = "ok"
        /\ IsPermutationOfNodes(graph, result.order)
        /\ \A e \in EdgeSet(graph) :
               ~SameScc(graph, e[1], e[2]) =>
                   IndexOf(result.order, e[2]) < IndexOf(result.order, e[1])

C2_Witness ==
    /\ TolerantCall /\ result.status = "ok"
    /\ \E a, b, c \in NodeSet(graph) :
           /\ a # b /\ SameScc(graph, a, b)
           /\ ~SameScc(graph, c, a)
           /\ <<c, a>> \in EdgeSet(graph)

\* C3: get_encoding_sequence() returns exactly one record per node of the
\* graph, and the order fields are 1, 2, ..., N in list position order.
C3_EncodingSequenceIsPermutation ==
    result.op = "get_encoding_sequence" =>
        /\ result.status = "ok"
        /\ Len(result.records) = Len(graph.node)
        /\ {result.records[i].citation_path : i \in DOMAIN result.records}
               = NodeSet(graph)
        /\ \A i \in DOMAIN result.records : result.records[i].order = i

C3_Witness ==
    /\ result.op = "get_encoding_sequence"
    /\ Len(result.records) = 3
    /\ ~Acyclic(graph)

\* C4: every record's scc_size is the number of nodes of the strongly
\* connected component containing the record's node, the components
\* get_sccs() returns are those components, and their sizes sum to
\* num_nodes.
RECURSIVE SumCard(_, _)
SumCard(sccs, k) ==
    IF k > Len(sccs) THEN 0 ELSE Cardinality(sccs[k]) + SumCard(sccs, k + 1)

C4_SccSizeIsComponentSize ==
    result.op = "get_encoding_sequence" =>
        /\ \A i \in DOMAIN result.records :
               /\ result.records[i].scc_size
                      = Cardinality(SccOf(graph, result.records[i].citation_path))
               /\ \E k \in DOMAIN get_sccs(graph) :
                      /\ result.records[i].citation_path \in get_sccs(graph)[k]
                      /\ result.records[i].scc_size = Cardinality(get_sccs(graph)[k])
        /\ Range(get_sccs(graph)) = {SccOf(graph, n) : n \in NodeSet(graph)}
        /\ SumCard(get_sccs(graph), 1) = num_nodes

C4_Witness ==
    /\ result.op = "get_encoding_sequence"
    /\ \E i, j \in DOMAIN result.records :
           result.records[i].scc_size = 2 /\ result.records[j].scc_size = 1

\* C5: strict topological_sort on a graph with a cycle returns no order: it
\* fails with an error carrying at most 3 cycles of the graph; the call
\* changes neither the graph nor the encoded set; and the tolerant call on
\* the same graph succeeds.
C5_Outcome ==
    (result.op = "topological_sort" /\ ~Acyclic(graph)) =>
        IF result.allow_cycles
        THEN result.status = "ok" /\ IsPermutationOfNodes(graph, result.order)
        ELSE /\ result.status = "ValueError"
             /\ Cardinality(result.cycles) <= 3
             /\ result.cycles # {}
             /\ result.cycles \subseteq SimpleCycles(graph)

C5_StrictFailsOnCycle ==
    /\ []C5_Outcome
    /\ [][result'.op = "topological_sort" => (graph' = graph /\ encoded' = encoded)]_vars

C5_Witness ==
    /\ StrictCall /\ result.status = "ValueError"
    /\ Cardinality(SimpleCycles(graph)) > 3
    /\ encoded # {}

\* C6: in the order topological_sort(allow_cycles=True) returns on a graph
\* with a cycle, the members of each strongly connected component are
\* contiguous, and inside a component out_degree never increases.
C6_SccBlocksByOutDegree ==
    (TolerantCall /\ ~Acyclic(graph)) =>
        /\ result.status = "ok"
        /\ \A i, j \in DOMAIN result.order :
               (i < j /\ SameScc(graph, result.order[i], result.order[j])) =>
                   /\ \A k \in i..j : SameScc(graph, result.order[i], result.order[k])
                   /\ out_degree(graph, result.order[i])
                          >= out_degree(graph, result.order[j])

C6_Witness ==
    /\ TolerantCall /\ result.status = "ok"
    /\ \E i, j \in DOMAIN result.order :
           /\ i < j /\ SameScc(graph, result.order[i], result.order[j])
           /\ out_degree(graph, result.order[i]) > out_degree(graph, result.order[j])
    /\ \E n \in NodeSet(graph) : Cardinality(SccOf(graph, n)) = 1

\* C7: topological_sort(allow_cycles=True) and get_encoding_sequence() are
\* deterministic: the graph alone fixes the sequence they return, also
\* among nodes of equal out-degree inside one component.
C7_TolerantOrderDeterministic ==
    /\ TolerantCall => \A r \in topological_sort(graph, TRUE) : r = result
    /\ result.op = "get_encoding_sequence" =>
           \A r \in get_encoding_sequence(graph) : r = result

(***************************************************************************)
(* SpecAttrs: add_node and add_edge with attributes, over two ids.         *)
(***************************************************************************)
AttrIds == {IdSeq[1], IdSeq[2]}

NodeAttrInputs ==
    {NoAttrs, [heading |-> "Earned income"], [heading |-> "Definitions", level |-> "0"]}

RefTypeInputs == {"unknown", "internal_section"}

EdgeAttrInputs == {NoAttrs, [text |-> "section 151"]}

AddNodeAttrs == \E n \in AttrIds, a \in NodeAttrInputs : add_node(n, a)

AddEdgeAttrs ==
    \E u \in AttrIds, v \in AttrIds, rt \in RefTypeInputs, a \in EdgeAttrInputs :
        /\ <<u, v>> \in EdgeSet(graph) \/ number_of_edges(graph) < MaxAttrEdges
        /\ add_edge(u, v, rt, a)

NextAttrs ==
    \/ AddNodeAttrs
    \/ AddEdgeAttrs

SpecAttrs == Init /\ [][NextAttrs]_vars

IsInjective(s) == \A i, j \in DOMAIN s : i # j => s[i] # s[j]

\* C8: for all nodes A and B, B is in get_dependencies(A) iff the edge
\* A -> B was added iff A is in get_dependents(B); neither list repeats a
\* node; in_degree(A) is the number of dependencies of A and out_degree(B)
\* the number of dependents of B.
C8_DirectionConvention ==
    \A a \in NodeSet(graph), b \in NodeSet(graph) :
        /\ (b \in Range(get_dependencies(graph, a))) <=> (<<a, b>> \in edgesAdded)
        /\ (a \in Range(get_dependents(graph, b))) <=> (<<a, b>> \in edgesAdded)
        /\ IsInjective(get_dependencies(graph, a))
        /\ IsInjective(get_dependents(graph, b))
        /\ in_degree(graph, a) = Cardinality({c \in NodeSet(graph) : <<a, c>> \in edgesAdded})
        /\ in_degree(graph, a) = Len(get_dependencies(graph, a))
        /\ out_degree(graph, b) = Cardinality({c \in NodeSet(graph) : <<c, b>> \in edgesAdded})
        /\ out_degree(graph, b) = Len(get_dependents(graph, b))

C8_Witness ==
    \E a, b, c \in NodeSet(graph) :
        /\ a # b /\ a # c /\ b # c
        /\ result.op = "add_edge"
        /\ edgesAdded = {<<a, b>>, <<a, c>>}
        /\ get_dependencies(graph, a) = <<b, c>>
        /\ get_dependents(graph, b) = <<a>>
        /\ in_degree(graph, a) = 2 /\ out_degree(graph, a) = 0
        /\ in_degree(graph, b) = 0 /\ out_degree(graph, b) = 1

\* C9 as claimed: add_node on an id of the graph changes neither the nodes
\* nor the edges and only merges the attributes of the call into the
\* node's; add_edge on a pair that has an edge leaves num_edges unchanged,
\* there is one edge per ordered pair, and the edge's attributes are those
\* of the latest call.
C9_SingleEdge ==
    /\ \A n \in NodeSet(graph) : IsInjective(graph.succ[n]) /\ IsInjective(graph.pred[n])
    /\ num_edges = Cardinality(EdgeSet(graph))
    /\ DOMAIN graph.eattr = EdgeSet(graph)

C9_NodeStep ==
    \A n \in Ids, a \in NodeAttrInputs :
        (n \in NodeSet(graph) /\ add_node(n, a)) =>
            /\ graph'.node = graph.node
            /\ graph'.succ = graph.succ /\ graph'.pred = graph.pred
            /\ graph'.eattr = graph.eattr
            /\ \A m \in NodeSet(graph) \ {n} : graph'.nattr[m] = graph.nattr[m]
            /\ DOMAIN graph'.nattr[n] = (DOMAIN graph.nattr[n]) \cup (DOMAIN a)
            /\ \A k \in DOMAIN a : graph'.nattr[n][k] = a[k]
            /\ \A k \in (DOMAIN graph.nattr[n]) \ (DOMAIN a) :
                   graph'.nattr[n][k] = graph.nattr[n][k]

C9_EdgeStepCommon(u, v) ==
    /\ number_of_edges(graph') = number_of_edges(graph)
    /\ graph'.node = graph.node
    /\ graph'.succ = graph.succ /\ graph'.pred = graph.pred
    /\ graph'.nattr = graph.nattr
    /\ \A e \in EdgeSet(graph) \ {<<u, v>>} : graph'.eattr[e] = graph.eattr[e]

C9_EdgeStepLatestOnly ==
    \A u \in Ids, v \in Ids, rt \in RefTypeInputs, a \in EdgeAttrInputs :
        (<<u, v>> \in EdgeSet(graph) /\ add_edge(u, v, rt, a)) =>
            /\ C9_EdgeStepCommon(u, v)
            /\ graph'.eattr[<<u, v>>] = DictUpdate(a, [ref_type |-> rt])

C9_UpsertLatestOnly ==
    /\ []C9_SingleEdge
    /\ [][C9_NodeStep /\ C9_EdgeStepLatestOnly]_vars

\* C9 as amended: ... and the edge carries the attributes of the latest
\* call merged over those it had: ref_type and every attribute the latest
\* call names have that call's values, an attribute only earlier calls
\* named keeps its value.
C9_EdgeStepMerged ==
    \A u \in Ids, v \in Ids, rt \in RefTypeInputs, a \in EdgeAttrInputs :
        (<<u, v>> \in EdgeSet(graph) /\ add_edge(u, v, rt, a)) =>
            /\ C9_EdgeStepCommon(u, v)
            /\ graph'.eattr[<<u, v>>].ref_type = rt
            /\ DOMAIN graph'.eattr[<<u, v>>]
                   = (DOMAIN graph.eattr[<<u, v>>]) \cup (DOMAIN a) \cup {"ref_type"}
            /\ \A k \in DOMAIN a : graph'.eattr[<<u, v>>][k] = a[k]
            /\ \A k \in (DOMAIN graph.eattr[<<u, v>>]) \ ((DOMAIN a) \cup {"ref_type"}) :
                   graph'.eattr[<<u, v>>][k] = graph.eattr[<<u, v>>][k]

C9_UpsertMerges ==
    /\ []C9_SingleEdge
    /\ [][C9_NodeStep /\ C9_EdgeStepMerged]_vars

C9_Witness ==
    /\ result.op = "add_edge" /\ result.created = {}
    /\ \E e \in EdgeSet(graph) :
           /\ graph.eattr[e] = [ref_type |-> "internal_section", text |-> "section 151"]
           /\ graph.nattr[e[1]] = [heading |-> "Earned income", level |-> "0"]

\* C10: both endpoints of every edge are nodes of the graph, after any
\* sequence of add_node, add_edge (also with ids never given to add_node),
\* subgraph, subgraph_from_nodes and loader steps.
C10_ReferentialIntegrity ==
    /\ DOMAIN graph.succ = NodeSet(graph)
    /\ DOMAIN graph.pred = NodeSet(graph)
    /\ DOMAIN graph.nattr = NodeSet(graph)
    /\ \A n \in DOMAIN graph.succ : Range(graph.succ[n]) \subseteq NodeSet(graph)
    /\ \A n \in DOMAIN graph.pred : Range(graph.pred[n]) \subseteq NodeSet(graph)
    /\ DOMAIN graph.eattr \subseteq NodeSet(graph) \X NodeSet(graph)
    /\ edgesAdded \subseteq NodeSet(graph) \X NodeSet(graph)

C10_Witness ==
    /\ result.op = "add_edge"
    /\ Cardinality(result.created) = 2
    /\ Len(graph.node) = 3

(***************************************************************************)
(* Derived graphs.  subgraph and subgraph_from_nodes return a new          *)
(* StatuteGraph object; child is that object while the graph it was taken  *)
(* from stays in graph and encoded.  A StatuteGraph object refers to two   *)
(* mutable objects, its DiGraph and its encoded set: shares names the      *)
(* fields of child that refer to the very objects of the parent, so that   *)
(* a change through either graph is seen through both.                     *)
(***************************************************************************)
StatuteGraphObject(sg, shares) ==
    [made |-> TRUE, graph |-> sg.graph, encoded |-> sg.encoded, shares |-> shares]

\* The object subgraph(prefix, sections) returns: new_graph = StatuteGraph(),
\* filled by add_node and add_edge.
subgraph_returned(g, prefix, sections) ==
    {StatuteGraphObject(sg, {}) : sg \in subgraph(g, prefix, sections)}

\* subgraph_from_nodes handing the parent's own encoded set to the new graph.
subgraph_from_nodes_returned_same_set(g, enc, nodes) ==
    {StatuteGraphObject(sg, {"_encoded"}) : sg \in subgraph_from_nodes(g, enc, nodes)}

\* The object subgraph_from_nodes(nodes) returns: sg = StatuteGraph() with
\* the copy of the view in sg._graph and the intersection in sg._encoded.
subgraph_from_nodes_returned(g, enc, nodes) ==
    {StatuteGraphObject(sg, {}) : sg \in subgraph_from_nodes(g, enc, nodes)}

\* The DiGraph and the encoded set child refers to.
ChildGraph == IF "_graph" \in child.shares THEN graph ELSE child.graph

ChildEncoded == IF "_encoded" \in child.shares THEN encoded ELSE child.encoded

\* child = self.subgraph(prefix, sections)
NewSubgraph(prefix, sections) ==
    /\ child' \in subgraph_returned(graph, prefix, sections)
    /\ result' = [op |-> "subgraph", prefix |-> prefix, sections |-> sections]
    /\ UNCHANGED <<graph, encoded, edgesAdded>>

\* child = self.subgraph_from_nodes(nodes)
NewSubgraphFromNodes(nodes) ==
    /\ child' \in subgraph_from_nodes_returned(graph, encoded, nodes)
    /\ result' = [op |-> "subgraph_from_nodes", nodes |-> nodes]
    /\ UNCHANGED <<graph, encoded, edgesAdded>>

(***************************************************************************)
(* SpecSelect: subgraph and subgraph_from_nodes as functions of the graph  *)
(* they are called on.  The graphs are built from citation paths of the    *)
(* shapes the loader and the tests use, with and without attributes.       *)
(***************************************************************************)
SelectIdSeq ==
    <<"us/statute/26/32", "us/statute/26/32/a", "us/statute/26/A/24",
      "us/statute/26/7701A", "A">>

SelectIds == Range(SelectIdSeq)

SelectEdgeSeq ==
    <<(<<"us/statute/26/32", "us/statute/26/32/a">>),
      (<<"us/statute/26/32/a", "us/statute/26/32">>),
      (<<"us/statute/26/A/24", "us/statute/26/32">>),
      (<<"us/statute/26/7701A", "A">>),
      (<<"A", "A">>)>>

RECURSIVE AddSelectNodes(_, _, _)
AddSelectNodes(g, ns, k) ==
    IF k > Len(ns) THEN g
    ELSE AddSelectNodes(
             nx_add_node(g, ns[k],
                         IF ns[k] = "A" THEN NoAttrs ELSE [heading |-> "Heading"]),
             ns, k + 1)

RECURSIVE AddSelectEdges(_, _, _)
AddSelectEdges(g, es, k) ==
    IF k > Len(es) THEN g
    ELSE AddSelectEdges(
             nx_add_edge(g, es[k][1], es[k][2],
                         [ref_type |-> "internal_section", text |-> "ref"]),
             es, k + 1)

\* add_node(n, heading=...) for the ids of S (add_node("A") without
\* attributes), then add_edge(u, v, "internal_section", text=...) for the
\* pairs of E.
BuiltSelectGraph(S, E) ==
    AddSelectEdges(
        AddSelectNodes(DiGraph, SelectSeq(SelectIdSeq, LAMBDA x : x \in S), 1),
        SelectSeq(SelectEdgeSeq, LAMBDA e : e \in E), 1)

\* The graphs over the ids of S with edges among them, for every S.
BuiltSelectGraphs ==
    UNION {{BuiltSelectGraph(S, E) : E \in SUBSET (Range(SelectEdgeSeq) \cap (S \X S))} :
              S \in SUBSET SelectIds}

SelectPrefixInputs == {"", "26/A", "us/statute/26/32", "A"}

SelectSectionInputs == {None, <<24, 32>>, <<7701, 7701>>}

\* Node lists given to subgraph_from_nodes: every node, some nodes, an id
\* given twice, an id that is no node, no id.
SelectNodeListInputs(g) ==
    {g.node,
     <<"us/statute/26/32", "us/statute/26/32/a">>,
     <<"A", "us/statute/26/32", "A">>,
     <<"us/statute/26/A/24", "us/statute/26">>,
     <<>>}

InitSelect ==
    /\ graph \in BuiltSelectGraphs
    /\ encoded \in {{}, {graph.node[i] : i \in (DOMAIN graph.node) \cap {1, 2}}}
    /\ result = NoResult
    /\ edgesAdded = EdgeSet(graph)
    /\ child = NoChild

\* One call on each graph: the calls are functions of the graph.
NewSubgraphCall ==
    /\ ~child.made
    /\ \E p \in SelectPrefixInputs, r \in SelectSectionInputs : NewSubgraph(p, r)

NewSubgraphFromNodesCall ==
    /\ ~child.made
    /\ \E ns \in SelectNodeListInputs(graph) : NewSubgraphFromNodes(ns)

NextSelect ==
    \/ NewSubgraphCall
    \/ NewSubgraphFromNodesCall

SpecSelect == InitSelect /\ [][NextSelect]_vars

\* The subgraph of g induced by the ids of S: nodes and edges.
InducedNodes(g, S) == S \cap NodeSet(g)

InducedEdges(g, S) == {e \in EdgeSet(g) : e[1] \in S /\ e[2] \in S}

\* C11: subgraph_from_nodes(S) returns the induced subgraph: its nodes are
\* the ids of S that are nodes of the graph, it has the edge u -> v iff the
\* graph has it and u and v are in S; when S holds every node the result has
\* the num_nodes and num_edges of the graph.
C11_SubgraphFromNodesInduced ==
    result.op = "subgraph_from_nodes" =>
        /\ child.made
        /\ NodeSet(ChildGraph) = InducedNodes(graph, Range(result.nodes))
        /\ EdgeSet(ChildGraph) = InducedEdges(graph, Range(result.nodes))
        /\ IsInjective(ChildGraph.node)
        /\ number_of_edges(ChildGraph) = Cardinality(EdgeSet(ChildGraph))
        /\ NodeSet(graph) \subseteq Range(result.nodes) =>
               /\ number_of_nodes(ChildGraph) = num_nodes
               /\ number_of_edges(ChildGraph) = num_edges

C11_Witness ==
    /\ result.op = "subgraph_from_nodes"
    /\ Len(result.nodes) = 2
    /\ Cardinality(EdgeSet(ChildGraph)) = 2
    /\ Cardinality(EdgeSet(graph)) = 4
    /\ Range(result.nodes) \subseteq NodeSet(graph)

(***************************************************************************)
(* SpecShare: a graph and the graph derived from it, both in use.  The     *)
(* methods called on the derived graph act on the objects child refers to. *)
(***************************************************************************)
\* mark_encoded keeping the marked id only.
mark_encoded_replacing(node) ==
    /\ encoded' = {node}
    /\ result' = [op |-> "mark_encoded"]
    /\ UNCHANGED <<graph, edgesAdded, child>>

\* StatuteGraph.mark_encoded(node): any string is accepted.
mark_encoded(node) ==
    /\ encoded' = encoded \cup {node}
    /\ result' = [op |-> "mark_encoded"]
    /\ UNCHANGED <<graph, edgesAdded, child>>

\* child.add_node(citation_path, **attrs)
ChildAddNode(citation_path, attrs) ==
    /\ child.made
    /\ IF "_graph" \in child.shares
       THEN /\ graph' = nx_add_node(graph, citation_path, attrs)
            /\ UNCHANGED child
       ELSE /\ child' = [child EXCEPT !.graph = nx_add_node(@, citation_path, attrs)]
            /\ UNCHANGED graph
    /\ result' = [op |-> "child.add_node"]
    /\ UNCHANGED <<encoded, edgesAdded>>

\* child.add_edge(from_node, to_node, ref_type, **attrs)
ChildAddEdge(from_node, to_node, ref_type, attrs) ==
    LET a == DictUpdate(attrs, [ref_type |-> ref_type])
    IN  /\ child.made
        /\ IF "_graph" \in child.shares
           THEN /\ graph' = nx_add_edge(graph, from_node, to_node, a)
                /\ edgesAdded' = edgesAdded \cup {<<from_node, to_node>>}
                /\ UNCHANGED child
           ELSE /\ child' = [child EXCEPT !.graph = nx_add_edge(@, from_node, to_node, a)]
                /\ UNCHANGED <<graph, edgesAdded>>
        /\ result' = [op |-> "child.add_edge"]
        /\ UNCHANGED encoded

\* child.mark_encoded(node)
ChildMarkEncoded(node) ==
    /\ child.made
    /\ IF "_encoded" \in child.shares
       THEN /\ encoded' = encoded \cup {node}
            /\ UNCHANGED child
       ELSE /\ child' = [child EXCEPT !.encoded = @ \cup {node}]
            /\ UNCHANGED encoded
    /\ result' = [op |-> "child.mark_encoded"]
    /\ UNCHANGED <<graph, edgesAdded>>

ShareNodeListInputs == {<<IdSeq[1]>>, <<IdSeq[2], IdSeq[1]>>}

ParentAddNode == \E n \in AttrIds : add_node(n, NoAttrs)

ParentAddEdge ==
    \E u \in AttrIds, v \in AttrIds :
        /\ <<u, v>> \in EdgeSet(graph) \/ number_of_edges(graph) < MaxAttrEdges
        /\ add_edge(u, v, "unknown", NoAttrs)

ParentMarkEncoded == \E n \in AttrIds : mark_encoded(n)

ShareSubgraph == \E p \in {"", "us/statute/26/32"} : NewSubgraph(p, None)

ShareSubgraphFromNodes == \E ns \in ShareNodeListInputs : NewSubgraphFromNodes(ns)

ShareChildAddNode == \E n \in AttrIds : ChildAddNode(n, NoAttrs)

ShareChildAddEdge ==
    \E u \in AttrIds, v \in AttrIds :
        /\ child.made
        /\ <<u, v>> \in EdgeSet(ChildGraph) \/ number_of_edges(ChildGraph) < MaxAttrEdges
        /\ ChildAddEdge(u, v, "unknown", NoAttrs)

ShareChildMarkEncoded == \E n \in AttrIds : ChildMarkEncoded(n)

NextShare ==
    \/ ParentAddNode
    \/ ParentAddEdge
    \/ ParentMarkEncoded
    \/ ShareSubgraph
    \/ ShareSubgraphFromNodes
    \/ ShareChildAddNode
    \/ ShareChildAddEdge
    \/ ShareChildMarkEncoded

SpecShare == Init /\ [][NextShare]_vars

ParentOps == {"add_node", "add_edge", "mark_encoded"}

ChildOps == {"child.add_node", "child.add_edge", "child.mark_encoded"}

\* C12: a graph returned by subgraph or subgraph_from_nodes shares no
\* mutable state with its parent: add_node, add_edge and mark_encoded on the
\* child leave the parent's node set, edge set and encoded set unchanged,
\* and the same calls on the parent leave those of the child unchanged.
C12_ChildStepKeepsParent ==
    result'.op \in ChildOps =>
        /\ NodeSet(graph') = NodeSet(graph)
        /\ EdgeSet(graph') = EdgeSet(graph)
        /\ encoded' = encoded

C12_ParentStepKeepsChild ==
    (result'.op \in ParentOps /\ child.made) =>
        /\ NodeSet(ChildGraph') = NodeSet(ChildGraph)
        /\ EdgeSet(ChildGraph') = EdgeSet(ChildGraph)
        /\ ChildEncoded' = ChildEncoded

C12_NoSharedState == [][C12_ChildStepKeepsParent /\ C12_ParentStepKeepsChild]_vars

C12_Witness ==
    /\ child.made
    /\ result.op = "mark_encoded"
    /\ NodeSet(ChildGraph) # NodeSet(graph)
    /\ EdgeSet(ChildGraph) # EdgeSet(graph)
    /\ ChildEncoded # {} /\ encoded # {} /\ ChildEncoded # encoded

\* C13: subgraph(prefix, sections) and subgraph_from_nodes(nodes) carry the
\* encoded marks over: the encoded set of the returned graph is the
\* parent's encoded set intersected with the retained nodes.
C13_SubgraphKeepsEncoded ==
    result.op \in {"subgraph", "subgraph_from_nodes"} =>
        ChildEncoded = encoded \cap NodeSet(ChildGraph)

\* The nodes of g whose citation path starts with prefix, "us/statute/"
\* put before a prefix that does not begin with "us/".
StartingWith(g, prefix) ==
    LET wanted == IF StartsWith(Chars(prefix), Chars("us/"))
                  THEN Chars(prefix)
                  ELSE Chars("us/statute/") \o Chars(prefix)
    IN  {n \in NodeSet(g) : StartsWith(Chars(n), wanted)}

\* The child is the subgraph of the parent induced by S, attributes copied.
ChildIsInducedCopy(S) ==
    /\ child.made
    /\ NodeSet(ChildGraph) = S
    /\ EdgeSet(ChildGraph) = InducedEdges(graph, S)
    /\ \A n \in S : ChildGraph.nattr[n] = graph.nattr[n]
    /\ \A e \in InducedEdges(graph, S) : ChildGraph.eattr[e] = graph.eattr[e]

PrefixOnlyCall == result.op = "subgraph" /\ result.sections = None

\* C14 as claimed: subgraph(prefix=p) without a section range returns the
\* induced subgraph on exactly the nodes whose path starts with p when p
\* begins with "us/", with "us/statute/" + p otherwise; edges are kept iff
\* both endpoints are selected; node and edge attributes are copied.
C14_PrefixSelectsByPath ==
    PrefixOnlyCall => ChildIsInducedCopy(StartingWith(graph, result.prefix))

\* C14 as amended: the same for a non-empty p; an empty p selects every node.
C14_NonEmptyPrefixSelectsByPath ==
    PrefixOnlyCall =>
        IF result.prefix = ""
        THEN ChildIsInducedCopy(NodeSet(graph))
        ELSE ChildIsInducedCopy(StartingWith(graph, result.prefix))

C14_Witness ==
    /\ PrefixOnlyCall
    /\ result.prefix = "us/statute/26/32"
    /\ Cardinality(NodeSet(graph)) = 5
    /\ Cardinality(EdgeSet(graph)) = 5
    /\ Cardinality(NodeSet(ChildGraph)) = 2
    /\ Cardinality(EdgeSet(ChildGraph)) = 2

\* The number in the final segment of a citation path, <<n>>, or None: the
\* segment's digits, one trailing capital letter ignored.
FinalSegmentNumber(path) ==
    LET segs == SplitSlash(Chars(path), 1, <<>>)
        seg  == segs[Len(segs)]
        body == IF seg # <<>> /\ IsUpper(seg[Len(seg)])
                THEN SubSeq(seg, 1, Len(seg) - 1) ELSE seg
    IN  IF body # <<>> /\ \A i \in DOMAIN body : IsDigit(body[i])
        THEN <<IntOf(body)>> ELSE None

InSectionRange(path, sections) ==
    /\ FinalSegmentNumber(path) # None
    /\ sections[1] <= FinalSegmentNumber(path)[1]
    /\ FinalSegmentNumber(path)[1] <= sections[2]

\* C15: subgraph(sections=(min, max)) selects a node iff the digits of the
\* final segment of its citation path, one trailing letter ignored, form a
\* number in min..max; a node whose final segment has no such number is
\* excluded; with a prefix too, a node is selected iff it passes both.
C15_SectionRangeByFinalSegment ==
    (result.op = "subgraph" /\ result.sections # None) =>
        NodeSet(ChildGraph) =
            {n \in NodeSet(graph) :
                /\ result.prefix = "" \/ n \in StartingWith(graph, result.prefix)
                /\ InSectionRange(n, result.sections)}

(***************************************************************************)
(* Metrics.  get_ancestors, get_descendants and depth call themselves once *)
(* per edge they follow; the interpreter gives a call chain               *)
(* RecursionLimit frames and raises RecursionError in the frame after.     *)
(***************************************************************************)
RecursionLimit == 6

RecursionError == [status |-> "RecursionError"]

Ok(v) == [status |-> "ok", value |-> v]

Max(a, b) == IF a >= b THEN a ELSE b

\* The body shared by get_ancestors (adj = successors) and get_descendants
\* (adj = predecessors); max_depth is None or <<k>> for the int k.
RECURSIVE Walk(_, _, _, _)
RECURSIVE WalkLoop(_, _, _, _, _, _)

Walk(adj, node, max_depth, frames) ==
    IF frames = 0 THEN RecursionError
    ELSE IF max_depth = <<0>> THEN Ok({})
    ELSE WalkLoop(adj, adj[node], 1, max_depth, frames, {})

WalkLoop(adj, deps, k, max_depth, frames, found) ==
    IF k > Len(deps) THEN Ok(found)
    ELSE IF max_depth = None \/ max_depth[1] > 1
         THEN LET next_depth == IF max_depth = None THEN None ELSE <<max_depth[1] - 1>>
                  r == Walk(adj, deps[k], next_depth, frames - 1)
              IN  IF r.status # "ok" THEN r
                  ELSE WalkLoop(adj, deps, k + 1, max_depth, frames,
                                found \cup {deps[k]} \cup r.value)
         ELSE WalkLoop(adj, deps, k + 1, max_depth, frames, found \cup {deps[k]})

\* get_ancestors following the dependents.
get_ancestors_of_dependents(g, node, max_depth) ==
    Walk(g.pred, node, max_depth, RecursionLimit)

\* StatuteGraph.get_ancestors(node, max_depth)
get_ancestors(g, node, max_depth) == Walk(g.succ, node, max_depth, RecursionLimit)

\* StatuteGraph.get_descendants(node, max_depth)
get_descendants(g, node, max_depth) == Walk(g.pred, node, max_depth, RecursionLimit)

\* StatuteGraph.depth(node)
RECURSIVE DepthRec(_, _, _)
RECURSIVE DepthMax(_, _, _, _, _)

DepthRec(g, node, frames) ==
    IF frames = 0 THEN RecursionError
    ELSE IF get_dependencies(g, node) = <<>> THEN Ok(0)
    ELSE LET m == DepthMax(g, get_dependencies(g, node), 1, frames, 0)
         IN  IF m.status # "ok" THEN m ELSE Ok(1 + m.value)

\* max(self.depth(dep) for dep in deps), deps from position k, best so far.
DepthMax(g, deps, k, frames, best) ==
    IF k > Len(deps) THEN Ok(best)
    ELSE LET r == DepthRec(g, deps[k], frames - 1)
         IN  IF r.status # "ok" THEN r
             ELSE DepthMax(g, deps, k + 1, frames, Max(best, r.value))

\* depth that counts the node itself: 1 for a node without dependencies.
depth_counting_nodes(g, node) ==
    LET r == DepthRec(g, node, RecursionLimit)
    IN  IF r.status # "ok" THEN r ELSE Ok(r.value + 1)

depth(g, node) == DepthRec(g, node, RecursionLimit)

\* StatuteGraph.max_depth
RECURSIVE MaxDepthLoop(_, _, _)
MaxDepthLoop(g, k, best) ==
    IF k > Len(g.node) THEN Ok(best)
    ELSE LET r == depth(g, g.node[k])
         IN  IF r.status # "ok" THEN r ELSE MaxDepthLoop(g, k + 1, Max(best, r.value))

max_depth(g) == IF number_of_nodes(g) = 0 THEN Ok(0) ELSE MaxDepthLoop(g, 1, 0)

\* The first n items of a list, as the slice list[:n] gives them.
SliceTo(s, n) ==
    IF n >= 0 THEN SubSeq(s, 1, Min(n, Len(s))) ELSE SubSeq(s, 1, Max(0, Len(s) + n))

\* get_hubs without the sort: the first top_k nodes.
get_hubs_unsorted(g, top_k) ==
    SliceTo([i \in 1..Len(g.node) |-> <<g.node[i], out_degree(g, g.node[i])>>], top_k)

\* StatuteGraph.get_hubs(top_k)
get_hubs(g, top_k) ==
    LET degrees == [i \in 1..Len(g.node) |-> <<g.node[i], out_degree(g, g.node[i])>>]
        key == [x \in Range(degrees) |-> x[2]]
    IN  SliceTo(SortByKeyDesc(degrees, key, Len(g.node)), top_k)

\* A call of get_ancestors(node, max_depth) on the graph.
GetAncestors(node, depth_limit) ==
    /\ node \in NodeSet(graph)
    /\ result' = [op |-> "get_ancestors", node |-> node, max_depth |-> depth_limit,
                  out |-> get_ancestors(graph, node, depth_limit)]
    /\ UNCHANGED <<graph, encoded, edgesAdded, child>>

\* A call of get_descendants(node, max_depth) on the graph.
GetDescendants(node, depth_limit) ==
    /\ node \in NodeSet(graph)
    /\ result' = [op |-> "get_descendants", node |-> node, max_depth |-> depth_limit,
                  out |-> get_descendants(graph, node, depth_limit)]
    /\ UNCHANGED <<graph, encoded, edgesAdded, child>>

\* A call of depth(node) on the graph.
Depth(node) ==
    /\ node \in NodeSet(graph)
    /\ result' = [op |-> "depth", node |-> node, out |-> depth(graph, node)]
    /\ UNCHANGED <<graph, encoded, edgesAdded, child>>

\* A read of the max_depth property.
MaxDepth ==
    /\ result' = [op |-> "max_depth", out |-> max_depth(graph)]
    /\ UNCHANGED <<graph, encoded, edgesAdded, child>>

\* A call of get_hubs(top_k) on the graph.
GetHubs(top_k) ==
    /\ result' = [op |-> "get_hubs", top_k |-> top_k, out |-> get_hubs(graph, top_k)]
    /\ UNCHANGED <<graph, encoded, edgesAdded, child>>

(***************************************************************************)
(* SpecMetric: the metrics as functions of the graph.  The graphs are all  *)
(* the graphs over Ids, nodes and edges added in the order of IdSeq.       *)
(***************************************************************************)
PlainGraphs ==
    UNION {{BuiltGraph(SelectSeq(IdSeq, LAMBDA x : x \in S),
                       SelectSeq(IdSeq, LAMBDA x : x \in S), E) :
               E \in SUBSET (S \X S)} :
              S \in SUBSET Ids}

MaxDepthInputs == {None, <<0>>, <<1>>, <<2>>, <<3>>}

TopKInputs == 0..4

\* The outcome of the query `method` for an id that is no node of g.
\* successors(node) and predecessors(node) raise NetworkXError, and so do
\* the queries that begin with get_dependencies or get_dependents;
\* get_ancestors and get_descendants return set() before that when
\* max_depth is 0.  The degree views, called with an id that is no node,
\* raise nothing: they return a view over the members of the id (the
\* characters of the string) that are nodes.
absent_id_query(g, method, node, max_depth_arg) ==
    IF method \in {"in_degree", "out_degree"}
    THEN Ok(SelectSeq(Chars(node), LAMBDA n : n \in NodeSet(g)))
    ELSE IF method \in {"get_ancestors", "get_descendants"} /\ max_depth_arg = <<0>>
         THEN Ok({})
         ELSE [status |-> "NetworkXError"]

\* A call of one of the queries that take a node id, with an id that is no
\* node of the graph; max_depth is read by get_ancestors and get_descendants
\* only.
QueryAbsentId ==
    /\ \E method \in {"get_dependencies", "get_dependents", "in_degree",
                       "out_degree", "depth", "get_blocked_by", "get_ancestors",
                       "get_descendants"},
          node \in Ids \ NodeSet(graph), d \in MaxDepthInputs :
           /\ method \notin {"get_ancestors", "get_descendants"} => d = None
           /\ result' = [op |-> "absent_id_query", method |-> method, node |-> node,
                         max_depth |-> d,
                         out |-> absent_id_query(graph, method, node, d)]
    /\ UNCHANGED <<graph, encoded, edgesAdded, child>>

InitMetric ==
    /\ graph \in PlainGraphs
    /\ encoded = {}
    /\ result = NoResult
    /\ edgesAdded = EdgeSet(graph)
    /\ child = NoChild

GetAncestorsCall == \E n \in Ids, d \in MaxDepthInputs : GetAncestors(n, d)

GetDescendantsCall == \E n \in Ids, d \in MaxDepthInputs : GetDescendants(n, d)

DepthCall == \E n \in Ids : Depth(n)

GetHubsCall == \E k \in TopKInputs : GetHubs(k)

NextMetric ==
    \/ GetAncestorsCall
    \/ GetDescendantsCall
    \/ DepthCall
    \/ MaxDepth
    \/ GetHubsCall
    \/ QueryAbsentId

SpecMetric == InitMetric /\ [][NextMetric]_vars

\* The nodes at the end of a path of 1..k edges of adj that starts in S.
RECURSIVE WithinSteps(_, _, _)
WithinSteps(adj, S, k) ==
    IF k = 0 THEN {}
    ELSE LET N == UNION {Range(adj[n]) : n \in S}
         IN  N \cup WithinSteps(adj, N, k - 1)

\* 1..max_depth edges; with max_depth None any number of edges, and no
\* path without a repeated node has more edges than the graph has nodes.
WithinDepth(g, adj, node, depth_limit) ==
    WithinSteps(adj, {node}, IF depth_limit = None THEN Len(g.node) ELSE depth_limit[1])

\* C16: on an acyclic graph get_ancestors(id, max_depth) returns exactly the
\* nodes reachable from id along 1..max_depth dependency edges (any number
\* of edges for None, none for 0), and get_descendants(id, max_depth) the
\* same along dependent edges.
C16_AncestorsAreBoundedClosure ==
    Acyclic(graph) =>
        /\ result.op = "get_ancestors" =>
               /\ result.out.status = "ok"
               /\ result.out.value
                      = WithinDepth(graph, graph.succ, result.node, result.max_depth)
        /\ result.op = "get_descendants" =>
               /\ result.out.status = "ok"
               /\ result.out.value
                      = WithinDepth(graph, graph.pred, result.node, result.max_depth)

C16_Witness ==
    /\ Acyclic(graph)
    /\ result.op = "get_ancestors"
    /\ result.max_depth = <<1>>
    /\ Cardinality(result.out.value) = 1
    /\ Cardinality(get_ancestors(graph, result.node, None).value) = 2
    /\ get_descendants(graph, result.node, None).value = {}

MetricCall == result.op \in {"get_ancestors", "get_descendants", "depth", "max_depth"}

\* C17: get_ancestors and get_descendants (for every max_depth, None too),
\* depth and max_depth end with a result on every finite graph, also on
\* graphs with cycles or self-loops.
C17_MetricsTerminate == MetricCall => result.out.status = "ok"

\* The number of edges of the longest path of g starting at node (g acyclic).
RECURSIVE NodesAtStep(_, _, _)
NodesAtStep(g, S, k) ==
    IF k = 0 THEN S ELSE NodesAtStep(g, UNION {Range(g.succ[n]) : n \in S}, k - 1)

LongestPath(g, node) ==
    CHOOSE k \in 0..Len(g.node) :
        /\ NodesAtStep(g, {node}, k) # {}
        /\ \A m \in (k + 1)..Len(g.node) : NodesAtStep(g, {node}, m) = {}

\* C18: on an acyclic graph depth(n) is 0 for a node without dependencies
\* and otherwise 1 + the largest depth of its dependencies, which is the
\* number of edges of the longest dependency path from n; max_depth is the
\* largest depth of a node and 0 for the empty graph.
C18_DepthIsLongestPath ==
    Acyclic(graph) =>
        /\ result.op = "depth" =>
               /\ result.out.status = "ok"
               /\ result.out.value = LongestPath(graph, result.node)
               /\ get_dependencies(graph, result.node) = <<>> => result.out.value = 0
               /\ get_dependencies(graph, result.node) # <<>> =>
                      /\ \A d \in Range(get_dependencies(graph, result.node)) :
                             result.out.value >= 1 + LongestPath(graph, d)
                      /\ \E d \in Range(get_dependencies(graph, result.node)) :
                             result.out.value = 1 + LongestPath(graph, d)
        /\ result.op = "max_depth" =>
               /\ result.out.status = "ok"
               /\ \A n \in NodeSet(graph) : result.out.value >= LongestPath(graph, n)
               /\ \/ \E n \in NodeSet(graph) : result.out.value = LongestPath(graph, n)
                  \/ NodeSet(graph) = {} /\ result.out.value = 0

C18_Witness ==
    /\ Acyclic(graph)
    /\ result.op = "depth"
    /\ result.out.value = 2
    /\ Len(get_dependencies(graph, result.node)) = 2

\* C19: get_hubs(top_k) returns min(top_k, num_nodes) pairs (node,
\* out_degree(node)) in non-increasing out_degree; no omitted node has a
\* larger out_degree than a returned one; nodes of equal out_degree appear
\* in the order in which they were added to the graph.
C19_HubsTopKStable ==
    result.op = "get_hubs" =>
        LET hubs == result.out
        IN  /\ Len(hubs) = Min(result.top_k, num_nodes)
            /\ \A i \in DOMAIN hubs :
                   /\ hubs[i][1] \in NodeSet(graph)
                   /\ hubs[i][2] = out_degree(graph, hubs[i][1])
            /\ IsInjective(hubs)
            /\ \A i, j \in DOMAIN hubs :
                   i < j =>
                       /\ hubs[i][2] >= hubs[j][2]
                       /\ hubs[i][2] = hubs[j][2] =>
                              IndexOf(graph.node, hubs[i][1]) < IndexOf(graph.node, hubs[j][1])
            /\ \A n \in NodeSet(graph) \ {hubs[i][1] : i \in DOMAIN hubs} :
                   \A i \in DOMAIN hubs :
                       /\ out_degree(graph, n) <= hubs[i][2]
                       /\ out_degree(graph, n) = hubs[i][2] =>
                              IndexOf(graph.node, hubs[i][1]) < IndexOf(graph.node, n)

C19_Witness ==
    /\ result.op = "get_hubs"
    /\ result.top_k = 2
    /\ Len(graph.node) = 3
    /\ result.out[1][1] = graph.node[2]
    /\ result.out[2][1] = graph.node[1]
    /\ out_degree(graph, graph.node[1]) = out_degree(graph, graph.node[3])

(***************************************************************************)
(* Encoding progress.                                                      *)
(***************************************************************************)
\* The characters of the citation paths in the order of their code points.
CodePointOrder ==
    <<"/", "0", "1", "2", "3", "4", "5", "6", "7", "8", "9", "A", "B",
      "C", "D", "E", "F", "G", "H", "I", "J", "K", "L", "M", "N", "O",
      "P", "Q", "R", "S", "T", "U", "V", "W", "X", "Y", "Z", "a", "b",
      "c", "d", "e", "f", "g", "h", "i", "j", "k", "l", "m", "n", "o",
      "p", "q", "r", "s", "t", "u", "v", "w", "x", "y", "z">>

Ord(c) == CHOOSE i \in DOMAIN CodePointOrder : CodePointOrder[i] = c

\* a < b for Python strings, on their characters.
StrLess(a, b) ==
    \E k \in 1..(Len(b)) :
        /\ \A i \in 1..(k - 1) : i <= Len(a) /\ a[i] = b[i]
        /\ k > Len(a) \/ (k <= Len(a) /\ Ord(a[k]) < Ord(b[k]))

\* sorted(list) for a list of strings: each item is put before the first
\* item that is larger.
RECURSIVE InsertSorted(_, _)
InsertSorted(s, x) ==
    IF s = <<>> THEN <<x>>
    ELSE IF StrLess(Chars(x), Chars(Head(s))) THEN <<x>> \o s
         ELSE <<Head(s)>> \o InsertSorted(Tail(s), x)

RECURSIVE Sorted(_)
Sorted(s) ==
    IF s = <<>> THEN <<>>
    ELSE InsertSorted(Sorted(SubSeq(s, 1, Len(s) - 1)), s[Len(s)])

\* get_ready_nodes taking every unencoded node, whatever it depends on.
get_ready_nodes_ignoring_deps(g, enc) ==
    Sorted(SelectSeq(g.node, LAMBDA node : node \notin enc))

\* get_ready_nodes returning the list as collected.
get_ready_nodes_unsorted(g, enc) ==
    SelectSeq(g.node, LAMBDA node :
        /\ node \notin enc
        /\ \A dep \in Range(get_dependencies(g, node)) : dep \in enc)

\* StatuteGraph.get_ready_nodes
get_ready_nodes(g, enc) ==
    Sorted(SelectSeq(g.node, LAMBDA node :
        /\ node \notin enc
        /\ \A dep \in Range(get_dependencies(g, node)) : dep \in enc))

\* StatuteGraph.get_blocked_by(node)
get_blocked_by(g, enc, node) ==
    SelectSeq(get_dependencies(g, node), LAMBDA dep : dep \notin enc)

\* StatuteGraph.get_progress
get_progress(g, enc) ==
    LET total == number_of_nodes(g)
        encoded_count == Cardinality(enc)
        ready == Len(get_ready_nodes(g, enc))
        blocked == total - encoded_count - ready
    IN  [total |-> total, encoded |-> encoded_count, ready |-> ready,
         blocked |-> blocked]

\* A call of get_progress() on the graph.
GetProgress ==
    /\ result' = [op |-> "get_progress", out |-> get_progress(graph, encoded)]
    /\ UNCHANGED <<graph, encoded, edgesAdded, child>>

\* calculate_forward_refs(order) of the generate command, on the graph g:
\* the loop over order, then the report.  A quotient a / b of the report is
\* kept as the pair <<a, b>>; the division by len(order) = 0 raises
\* ZeroDivisionError.
calculate_forward_refs(g, order) ==
    LET RECURSIVE Replay(_, _)
        Replay(k, st) ==
            IF k > Len(order) THEN st
            ELSE LET node == order[k]
                     deps == Range(g.succ[node])
                     unmet == Cardinality(deps \ st.encoded)
                 IN  Replay(k + 1,
                            [encoded |-> st.encoded \cup {node},
                             total |-> st.total + unmet,
                             max_blocked |-> Max(st.max_blocked, unmet),
                             clean |-> IF unmet = 0 THEN st.clean + 1 ELSE st.clean])
        end == Replay(1, [encoded |-> {}, total |-> 0, max_blocked |-> 0, clean |-> 0])
    IN  IF Len(order) = 0
        THEN [status |-> "ZeroDivisionError"]
        ELSE [status |-> "ok",
              total_forward_refs |-> end.total,
              max_blocked |-> end.max_blocked,
              avg_blocked |-> <<end.total, Len(order)>>,
              pct_zero_blocked |-> <<end.clean * 100, Len(order)>>]

\* The comparator replays one order over all the nodes of the graph.
CalculateForwardRefs ==
    /\ \E order \in Perms(NodeSet(graph)) :
           result' = [op |-> "calculate_forward_refs", order |-> order,
                      out |-> calculate_forward_refs(graph, order)]
    /\ UNCHANGED <<graph, encoded, edgesAdded, child>>

\* A call of get_ready_nodes() on the graph.
GetReadyNodes ==
    /\ result' = [op |-> "get_ready_nodes", out |-> get_ready_nodes(graph, encoded)]
    /\ UNCHANGED <<graph, encoded, edgesAdded, child>>

\* A call of get_blocked_by(node) on the graph.
GetBlockedBy(node) ==
    /\ node \in NodeSet(graph)
    /\ result' = [op |-> "get_blocked_by", node |-> node,
                  out |-> get_blocked_by(graph, encoded, node)]
    /\ UNCHANGED <<graph, encoded, edgesAdded, child>>

(***************************************************************************)
(* SpecProgress: mark_encoded and the progress queries on every graph over *)
(* Ids.                                                                    *)
(***************************************************************************)
InitProgress ==
    /\ graph \in PlainGraphs
    /\ encoded = {}
    /\ result = NoResult
    /\ edgesAdded = EdgeSet(graph)
    /\ child = NoChild

MarkEncodedCall == \E n \in Ids : mark_encoded(n)

GetBlockedByCall == \E n \in Ids : GetBlockedBy(n)

NextProgress ==
    \/ MarkEncodedCall
    \/ GetReadyNodes
    \/ GetBlockedByCall
    \/ GetProgress
    \/ CalculateForwardRefs

SpecProgress == InitProgress /\ [][NextProgress]_vars

(***************************************************************************)
(* SpecFrame: mark_encoded between the calls that read the ordering, on    *)
(* the graphs over Ids that have at most MaxEdges edges.                   *)
(***************************************************************************)
InitFrame == InitProgress /\ number_of_edges(graph) <= MaxEdges

NextFrame ==
    \/ MarkEncodedCall
    \/ TopologicalSortStrict
    \/ TopologicalSortTolerant
    \/ GetEncodingSequence
    \/ GetSccs
    \/ GetHubsCall

SpecFrame == InitFrame /\ [][NextFrame]_vars

\* C20: get_ready_nodes() is exactly the nodes that are not encoded and for
\* which get_blocked_by is empty (every dependency is encoded), in ascending
\* order without repeats; get_blocked_by(id) is exactly the dependencies of
\* id that are not encoded.
C20_ReadyAndBlocked ==
    /\ result.op = "get_ready_nodes" =>
           /\ Range(result.out) =
                  {n \in NodeSet(graph) :
                      /\ n \notin encoded
                      /\ get_blocked_by(graph, encoded, n) = <<>>
                      /\ \A d \in NodeSet(graph) : <<n, d>> \in EdgeSet(graph) => d \in encoded}
           /\ \A i, j \in DOMAIN result.out :
                  i < j => StrLess(Chars(result.out[i]), Chars(result.out[j]))
    /\ result.op = "get_blocked_by" =>
           /\ Range(result.out) =
                  {d \in NodeSet(graph) : <<result.node, d>> \in EdgeSet(graph)} \ encoded
           /\ IsInjective(result.out)

C20_Witness ==
    /\ result.op = "get_ready_nodes"
    /\ Len(result.out) = 2
    /\ result.out # get_ready_nodes_unsorted(graph, encoded)
    /\ encoded \cap NodeSet(graph) # {}
    /\ \E n \in NodeSet(graph) : get_blocked_by(graph, encoded, n) # <<>>

\* C21: get_progress() reports total = the number of nodes, encoded = the
\* size of the encoded set, ready = the length of get_ready_nodes(), and
\* blocked = total - encoded - ready, and blocked is the number of nodes of
\* the graph that are neither encoded nor ready.
C21_ProgressCounts ==
    result.op = "get_progress" =>
        /\ result.out.total = Cardinality(NodeSet(graph))
        /\ result.out.encoded = Cardinality(encoded)
        /\ result.out.ready = Len(get_ready_nodes(graph, encoded))
        /\ result.out.blocked
               = result.out.total - result.out.encoded - result.out.ready
        /\ result.out.blocked =
               Cardinality({n \in NodeSet(graph) :
                               /\ n \notin encoded
                               /\ n \notin Range(get_ready_nodes(graph, encoded))})

\* The number of dependencies of order[i] that are not before it in order.
UnmetAt(order, i) ==
    Cardinality({d \in NodeSet(graph) :
                    /\ <<order[i], d>> \in EdgeSet(graph)
                    /\ \A j \in 1..(i - 1) : order[j] # d})

\* The report of the comparator is as claimed for the order it replayed.
ForwardRefsAsClaimed ==
    LET order == result.order
        out == result.out
        zero == {i \in DOMAIN order : UnmetAt(order, i) = 0}
    IN  /\ out.status = "ok"
        /\ out.total_forward_refs = 0 <=>
               \A i, j \in DOMAIN order :
                   <<order[i], order[j]>> \in EdgeSet(graph) => j < i
        /\ \A i \in DOMAIN order : UnmetAt(order, i) <= out.max_blocked
        /\ out.max_blocked = 0 \/ \E i \in DOMAIN order : UnmetAt(order, i) = out.max_blocked
        /\ out.pct_zero_blocked = <<Cardinality(zero) * 100, Len(order)>>

\* C22: for every total order over all nodes of the graph the replay yields
\* total_forward_refs = 0 exactly when every edge A -> B has B strictly
\* before A in the order; max_blocked is the largest unmet-dependency count
\* of a node and pct_zero_blocked the share of the nodes whose count is 0.
C22_ForwardRefs ==
    result.op = "calculate_forward_refs" => ForwardRefsAsClaimed

\* The same on the graphs that have a node.
C22_ForwardRefsNonEmpty ==
    (result.op = "calculate_forward_refs" /\ NodeSet(graph) # {}) => ForwardRefsAsClaimed

\* The queries the claim names.
QueryMethods ==
    {"get_dependencies", "get_dependents", "in_degree", "out_degree", "depth",
     "get_blocked_by", "get_ancestors", "get_descendants"}

\* A query ends in an error or returns a value.
OutcomeKind(out) == IF out.status = "ok" THEN "returns" ELSE "fails"

\* C23: for an id that is absent from the graph, get_dependencies,
\* get_dependents, in_degree, out_degree, depth, get_blocked_by,
\* get_ancestors and get_descendants all have the same kind of outcome (all
\* fail, or all return), and none of them adds the id to the graph or
\* changes the encoded set.
C23_AbsentIdHandledAlike ==
    /\ [](result.op = "absent_id_query" =>
              \A method \in QueryMethods, d \in MaxDepthInputs :
                  OutcomeKind(absent_id_query(graph, method, result.node, d))
                      = OutcomeKind(result.out))
    /\ [][result'.op = "absent_id_query" => (graph' = graph /\ encoded' = encoded)]_vars

\* The calls that read the ordering of the graph.
OrderingReads == {"topological_sort", "get_encoding_sequence", "get_sccs", "get_hubs"}

\* C24: mark_encoded(id) only inserts id into the encoded set (the set never
\* shrinks, and marking an encoded id changes nothing) and leaves the nodes
\* and edges as they are; topological_sort, get_encoding_sequence, get_sccs
\* and get_hubs change neither the graph nor the encoded set, and what they
\* return is what they return for the graph alone, whatever has been marked
\* before the call: the same before and after any mark_encoded calls.
C24_MarkEncodedFrame ==
    [][/\ result'.op = "mark_encoded" =>
              /\ encoded \subseteq encoded'
              /\ \E id \in Ids : encoded' = encoded \cup {id}
              /\ graph' = graph
              /\ get_sccs(graph') = get_sccs(graph)
              /\ \A k \in TopKInputs : get_hubs(graph', k) = get_hubs(graph, k)
       /\ result'.op \in OrderingReads =>
              /\ graph' = graph
              /\ encoded' = encoded
              /\ result'.op = "get_sccs" => result'.out = get_sccs(graph)
              /\ result'.op = "get_hubs" => result'.out = get_hubs(graph, result'.top_k)
              /\ result'.op = "topological_sort" =>
                     result' \in topological_sort(graph, result'.allow_cycles)
              /\ result'.op = "get_encoding_sequence" =>
                     result' \in get_encoding_sequence(graph)]_vars

C24_Witness ==
    /\ result.op = "get_encoding_sequence"
    /\ Cardinality(encoded) = 2
    /\ encoded \subseteq NodeSet(graph)
    /\ Len(graph.node) = 3
    /\ \E i \in DOMAIN result.records : result.records[i].scc_size = 2

(***************************************************************************)
(* SpecReady: the caller that keeps marking a node get_ready_nodes()       *)
(* lists, for as long as it lists one.                                     *)
(***************************************************************************)
\* mark_encoded(n) for one n that get_ready_nodes() lists: a node that is
\* not encoded and whose dependencies are all encoded (the test of the loop
\* of get_ready_nodes; the sort of the list does not change what it holds).
MarkReady ==
    \E n \in NodeSet(graph) \ encoded :
        /\ \A dep \in Range(get_dependencies(graph, n)) : dep \in encoded
        /\ mark_encoded(n)

SpecReady == InitProgress /\ [][MarkReady]_vars /\ WF_vars(MarkReady)

\* Every node is encoded and get_progress() says so.
AllEncoded ==
    /\ encoded = NodeSet(graph)
    /\ get_progress(graph, encoded) =
           [total |-> Cardinality(NodeSet(graph)),
            encoded |-> Cardinality(NodeSet(graph)),
            ready |-> 0, blocked |-> 0]

\* Marking in the order strict topological_sort() returns marks, at every
\* position, a node that get_ready_nodes() lists at that moment.
SortOrderMarksReadyNodes ==
    \A r \in topological_sort(graph, FALSE) :
        r.status = "ok" =>
            \A i \in DOMAIN r.order :
                r.order[i] \in
                    Range(get_ready_nodes(graph, {r.order[j] : j \in 1..(i - 1)}))

\* C25: under the discipline of marking some node of get_ready_nodes(), on
\* an acyclic graph get_ready_nodes() is non-empty while a node is
\* unencoded, and every node is eventually encoded (encoded = total, ready =
\* 0, blocked = 0); the order of topological_sort() marks only nodes that are
\* ready when their turn comes; on a graph with a cycle or a self-loop the
\* nodes on the cycle never appear in get_ready_nodes().
C25_ReadyDisciplineProgress ==
    /\ [](Range(get_ready_nodes(graph, encoded)) =
              {n \in NodeSet(graph) \ encoded :
                  \A dep \in NodeSet(graph) :
                      <<n, dep>> \in EdgeSet(graph) => dep \in encoded})
    /\ [][result'.op = "mark_encoded" =>
              \E n \in Range(get_ready_nodes(graph, encoded)) :
                  encoded' = encoded \cup {n}]_vars
    /\ []((Acyclic(graph) /\ ~(NodeSet(graph) \subseteq encoded)) =>
              get_ready_nodes(graph, encoded) # <<>>)
    /\ [](Acyclic(graph) => SortOrderMarksReadyNodes)
    /\ [](\A n \in NodeSet(graph) :
              Reaches(graph, n, n) => n \notin Range(get_ready_nodes(graph, encoded)))
    /\ (Acyclic(graph) ~> AllEncoded)

C25_Witness ==
    /\ result.op = "mark_encoded"
    /\ Len(graph.node) = 3
    /\ Acyclic(graph)
    /\ Cardinality(EdgeSet(graph)) = 2
    /\ AllEncoded

\* C26: after any sequence of add_node, add_edge and mark_encoded calls the
\* encoded set is a subset of the node set, and get_progress() has 0 <=
\* encoded <= total, blocked >= 0, every count non-negative and encoded +
\* ready + blocked = total.
C26_EncodedWithinNodes ==
    /\ encoded \subseteq NodeSet(graph)
    /\ result.op = "get_progress" =>
           /\ 0 <= result.out.encoded
           /\ result.out.encoded <= result.out.total
           /\ result.out.ready >= 0
           /\ result.out.blocked >= 0
           /\ result.out.encoded + result.out.ready + result.out.blocked
                  = result.out.total

\* C27: strict topological_sort() fails with the cycle error exactly when
\* get_sccs() has a component of more than one node, which is exactly when
\* some get_encoding_sequence() record has scc_size > 1; and a record has
\* scc_size 1 exactly when its node lies on no directed cycle, a
\* self-referencing edge counting as a cycle.
C27_CycleErrorIffLargeScc ==
    /\ StrictCall =>
           (result.status = "ValueError" <=>
                \E i \in DOMAIN get_sccs(graph) : Cardinality(get_sccs(graph)[i]) > 1)
    /\ result.op = "get_encoding_sequence" =>
           /\ (\E i \in DOMAIN result.records : result.records[i].scc_size > 1) <=>
                  (\E i \in DOMAIN get_sccs(graph) : Cardinality(get_sccs(graph)[i]) > 1)
           /\ \A i \in DOMAIN result.records :
                  result.records[i].scc_size = 1 <=>
                      ~Reaches(graph, result.records[i].citation_path,
                               result.records[i].citation_path)

\* Some component of get_sccs() has more than one node.
HasLargeScc == \E i \in DOMAIN get_sccs(graph) : Cardinality(get_sccs(graph)[i]) > 1

\* Some node has a self-referencing edge.
HasSelfLoop == \E n \in NodeSet(graph) : <<n, n>> \in EdgeSet(graph)

\* C27, amended: strict topological_sort() fails with the cycle error
\* exactly when get_sccs() has a component of more than one node or some node
\* has a self-referencing edge; some get_encoding_sequence() record has
\* scc_size > 1 exactly when get_sccs() has such a component; and a record
\* has scc_size 1 exactly when its node lies on no directed cycle through
\* another node.
C27_CycleErrorIffLargeSccOrSelfLoop ==
    /\ StrictCall =>
           (result.status = "ValueError" <=> (HasLargeScc \/ HasSelfLoop))
    /\ result.op = "get_encoding_sequence" =>
           /\ (\E i \in DOMAIN result.records : result.records[i].scc_size > 1)
                  <=> HasLargeScc
           /\ \A i \in DOMAIN result.records :
                  result.records[i].scc_size = 1 <=>
                      SccOf(graph, result.records[i].citation_path)
                          = {result.records[i].citation_path}

C27_Witness ==
    /\ StrictCall
    /\ result.status = "ValueError"
    /\ Len(graph.node) = 3
    /\ HasSelfLoop
    /\ ~HasLargeScc
    /\ Cardinality(EdgeSet(graph)) >= 2

====
